---- MODULE Spec2Model ----
(***************************************************************************)
(* Model of vertex_agent: Agent.prompt (the tool-calling conversation      *)
(* loop), Agent._format_as_json and APIClient.call_gemini_api.             *)
(*                                                                         *)
(* Python dicts are records with the same keys; a missing key is a missing *)
(* record field.  A JSON string literal "s" is the record [str |-> "s"],   *)
(* so that every argument value is a record.  A text is a sequence of      *)
(* characters.  f-strings are tuples of their fixed text and their values. *)
(***************************************************************************)
EXTENDS Integers, Sequences, FiniteSets, TLC

\* ---------------------------------------------------------------- bounds
\* most parts the model sends during one prompt() call, all responses together
MaxParts == 3
\* most requests the tool-calling loop sends during one prompt() call
MaxRequests == 2
\* most prompt() calls made on one Agent, where calls follow one another
MaxCalls == 2
\* most parts the model sends during one prompt() call, where calls follow
\* one another
MaxCallParts == 2

\* ------------------------------------------------------------ data model
None == [py |-> "None"]

EmptyDict == [k \in {} |-> None]

\* the texts the model may answer with: one valid JSON document, one not
Texts == {<<"[", "1", "]">>, <<"[", "1">>}

Marker(name) == [variable |-> name]

FunctionCall(name, args) == [functionCall |-> [name |-> name, args |-> args]]

TextParts == {[text |-> t] : t \in Texts}

\* a call of the registered tool with a marker and a literal argument, a call
\* of a tool that is not registered, and a call that lacks its name
FunctionCallParts ==
    { FunctionCall("get_user", [user_id |-> Marker("current_user"), fields |-> [str |-> "all"]]),
      FunctionCall("nope", [user_id |-> [str |-> "bob"]]),
      [functionCall |-> [args |-> [user_id |-> [str |-> "bob"]]]] }

Parts == TextParts \cup FunctionCallParts

SeqsUpTo(S, n) == UNION {[1..k -> S] : k \in 0..n}

IsFunctionCall(part) == "functionCall" \in DOMAIN part

IsText(part) == "text" \in DOMAIN part

\* response bodies (the parsed JSON of a response) that carry no usable parts
BlockedBodies ==
    { [modelVersion |-> "gemini"],
      [candidates |-> <<>>],
      [promptFeedback |-> [blockReason |-> "SAFETY"]],
      [candidates |-> <<>>, promptFeedback |-> [blockReason |-> "SAFETY"]] }

MalformedBodies ==
    { [candidates |-> <<[finishReason |-> "STOP"]>>],
      [candidates |-> <<[content |-> [role |-> "model"]]>>] }

PartsBody(parts) == [candidates |-> <<[content |-> [parts |-> parts]]>>]

\* HTTP responses: status ok or not, and a body that is JSON or is not
ErrorBody == [error |-> [message |-> "quota exceeded"]]

HttpResponses(maxParts) ==
    { [ok |-> FALSE, json |-> ErrorBody] }
    \cup { [ok |-> b, html |-> "<html>"] : b \in BOOLEAN }
    \cup { [ok |-> TRUE, json |-> d] : d \in BlockedBodies \cup MalformedBodies }
    \cup { [ok |-> TRUE, json |-> PartsBody(ps)] : ps \in SeqsUpTo(Parts, maxParts) }

\* ------------------------------------------------------------ json.loads
ParseFail == [ok |-> FALSE]

RECURSIVE ParseValue(_, _)
ParseValue(s, i) ==
    IF i > Len(s) THEN ParseFail
    ELSE IF s[i] = "1" THEN [ok |-> TRUE, value |-> [int |-> 1], next |-> i + 1]
    ELSE IF s[i] = "["
         THEN IF i + 1 <= Len(s) /\ s[i + 1] = "]"
              THEN [ok |-> TRUE, value |-> [list |-> <<>>], next |-> i + 2]
              ELSE LET inner == ParseValue(s, i + 1) IN
                   IF inner.ok /\ inner.next <= Len(s) /\ s[inner.next] = "]"
                   THEN [ok |-> TRUE, value |-> [list |-> <<inner.value>>],
                         next |-> inner.next + 1]
                   ELSE ParseFail
    ELSE ParseFail

\* the value of json.loads(s), or a JSONDecodeError
json_loads(s) ==
    LET r == ParseValue(s, 1) IN
    IF r.ok /\ r.next = Len(s) + 1 THEN [ok |-> TRUE, value |-> r.value] ELSE ParseFail


\* ------------------------------------------------------ program constants
user_prompt == <<"hello">>

\* a transcript of an earlier exchange that the caller may pass on
PriorTranscript == <<[role |-> "user", parts |-> <<[text |-> <<"earlier">>]>>]>>

\* the outcomes of calling the registered callable
ToolOutcomes == {"return", "raise"}

\* the config argument of prompt(): none, or an override of one of the keys
Configs == {EmptyDict, [model_name |-> "gemini-pro"], [region |-> "europe-west1"]}

\* the URL built from a region and a model name (the project id is fixed)
Url(region, model_name) == <<region, "-aiplatform.googleapis.com/", region, model_name>>

\* the APIClient as its constructor leaves it, with the defaults of Agent
ConfiguredClient ==
    [model_name |-> "gemini-1.5-flash",
     region |-> "us-central1",
     base_url |-> Url("us-central1", "gemini-1.5-flash")]

\* -------------------------------------------------------------- state
VARIABLES
    pc,                     \* position of the prompt() call
    tools,                  \* names registered in the ToolProcessor
    variables,              \* VariableManager: name -> value
    intermediate_results,   \* ToolProcessor._intermediate_results
    json_format,            \* argument of prompt()
    conversation_history,   \* the caller's list object passed to prompt()
    shares_history,         \* payload["contents"] is the caller's list object
    payload,                \* the request dict of the loop
    apply_json_format_later,
    count,
    response_data,          \* the response being processed by the loop
    part_index,             \* position of the for loop in content["parts"]
    final_text,
    result,                 \* what prompt() returned or raised
    requests,               \* payloads posted to the endpoint, in order
    response,               \* the HTTP response to the latest post
    executions,             \* calls of execute_tool, in order
    parts_received,         \* parts the model has sent during the call
    parts_budget,           \* most parts the model sends during the call
    config,                 \* argument of prompt()
    api_client,             \* APIClient: model_name, region, base_url
    urls,                   \* URLs posted to, in order
    calls,                  \* prompt() calls made on the Agent
    left_behind,            \* _intermediate_results as the call found it
    config_before           \* config argument of the call before

vars == <<pc, tools, variables, intermediate_results, json_format,
          conversation_history, shares_history, payload,
          apply_json_format_later, count, response_data, part_index,
          final_text, result, requests, response, executions,
          parts_received, parts_budget, config, api_client, urls, calls,
          left_behind, config_before>>

Pending == [pending |-> TRUE]

Init ==
    /\ pc = "idle"
    /\ tools \in {{}, {"get_user"}}
    /\ variables = EmptyDict
    /\ intermediate_results = EmptyDict
    /\ json_format = FALSE
    /\ conversation_history = <<>>
    /\ shares_history = FALSE
    /\ payload = None
    /\ apply_json_format_later = FALSE
    /\ count = 0
    /\ response_data = None
    /\ part_index = 0
    /\ final_text = <<>>
    /\ result = Pending
    /\ requests = <<>>
    /\ response = None
    /\ executions = <<>>
    /\ parts_received = 0
    /\ parts_budget = 0
    /\ config = EmptyDict
    /\ api_client = ConfiguredClient
    /\ urls = <<>>
    /\ calls = 0
    /\ left_behind = EmptyDict
    /\ config_before = EmptyDict

\* ------------------------------------------------------ APIClient
\* what call_gemini_api does with the HTTP response to its post
call_gemini_api(http) ==
    IF "json" \notin DOMAIN http
    THEN [raised |-> "JSONDecodeError"]
    ELSE LET data == http.json
             error_details == IF "error" \in DOMAIN data THEN data.error ELSE EmptyDict
             message == IF "message" \in DOMAIN error_details
                        THEN error_details.message ELSE "Unknown error"
         IN IF ~http.ok
            THEN [raised |-> "HTTPError", message |-> <<"Gemini API Error: ", message>>]
            ELSE [returned |-> data]

\* call_gemini_api posting to base_url whatever the config
request_url_configured(client, cfg) == client.base_url

\* the URL call_gemini_api posts to
request_url(client, cfg) ==
    IF DOMAIN cfg # {}
    THEN Url(IF "region" \in DOMAIN cfg THEN cfg.region ELSE client.region,
             IF "model_name" \in DOMAIN cfg THEN cfg.model_name ELSE client.model_name)
    ELSE client.base_url

\* ------------------------------------------------------ ToolProcessor
has_tool(registered, tool_name) == tool_name \in registered

get_tools_json(registered) == registered

IsMarker(value) == DOMAIN value = {"variable"}

\* substitute_variables that hands the arguments on as they are
substitute_variables_raw(args, store) == args

substitute_variables(args, store) ==
    [k \in DOMAIN args |->
        IF IsMarker(args[k]) THEN store[args[k].variable] ELSE args[k]]

\* resolve the markers of args, call the tool, name and keep its result
execute_tool(tool_name, args, store, interm, outcome) ==
    IF \E k \in DOMAIN args : IsMarker(args[k]) /\ args[k].variable \notin DOMAIN store
    THEN [raised |-> "NotFoundError"]
    ELSE LET received == substitute_variables(args, store) IN
         IF outcome = "raise"
         THEN [raised |-> "ToolError", received |-> received]
         ELSE [returned |-> [str |-> "profile"],
               variable_name |-> tool_name \o "_result_"
                                   \o ToString(Cardinality(DOMAIN interm) + 1),
               received |-> received]

\* ------------------------------------------------------ Agent
with(f, k, v) == [x \in DOMAIN f \cup {k} |-> IF x = k THEN v ELSE f[x]]

Turn(role, part) == [role |-> role, parts |-> <<part>>]

function_response(tool_name, value) ==
    [functionResponse |-> [name |-> tool_name, response |-> value]]

\* unknown_tool_part with the error message left empty
unknown_tool_part_silent(tool_name) ==
    function_response(tool_name, [error |-> <<>>])

\* the error_response_part of a call naming an unregistered tool
unknown_tool_part(tool_name) ==
    function_response(tool_name,
        [error |-> <<"Model attempted to call unknown function ", tool_name>>])

\* tool_error_part with a message that leaves the tool out
tool_error_part_unnamed(tool_name, e) ==
    function_response(tool_name, [error |-> <<"Error during execution of tool ", e>>])

\* the error_response_part of a call whose execution raised e
tool_error_part(tool_name, e) ==
    function_response(tool_name,
        [error |-> <<"Error during execution of tool ", tool_name, e>>])

\* the two user turns appended after a successful execution
tool_result_turns(tool_name, function_result, variable_name) ==
    << Turn("user", [text |->
          <<"the return value of the function stored in the variable ", variable_name>>]),
       Turn("user", function_response(tool_name,
          [content |-> function_result,
           key |-> variable_name,
           content_type |-> "str"])) >>

\* final_result without the json.loads
final_result_unparsed(text, as_json) == [text |-> text]

\* the value returned for a final text when no JSON formatting call is due
final_result(text, as_json) ==
    IF as_json
    THEN LET parsed == json_loads(text) IN
         IF parsed.ok THEN [json |-> parsed.value] ELSE [text |-> text]
    ELSE [text |-> text]

\* the parts of the response the for loop runs over
content_parts == response_data.candidates[1].content.parts

\* list.index: the first position holding a value equal to part
index(parts, part) == CHOOSE i \in DOMAIN parts :
                         parts[i] = part /\ \A j \in 1..(i - 1) : parts[j] # part

\* has_more_function_calls looking at the whole response
has_more_function_calls_anywhere(parts, part) ==
    \E j \in DOMAIN parts : IsFunctionCall(parts[j])

has_more_function_calls(parts, part) ==
    \E j \in (index(parts, part) + 1)..Len(parts) : IsFunctionCall(parts[j])

\* the parts of the body of an HTTP response, none when it has no parts
PartsOf(http) ==
    IF /\ "json" \in DOMAIN http
       /\ "candidates" \in DOMAIN http.json
       /\ http.json.candidates # <<>>
       /\ "content" \in DOMAIN http.json.candidates[1]
       /\ "parts" \in DOMAIN http.json.candidates[1].content
    THEN http.json.candidates[1].content.parts
    ELSE <<>>

\* payload["contents"] after the appends; the caller's list is the same object
\* when a non-empty conversation_history was passed
SetContents(contents) ==
    /\ payload' = [payload EXCEPT !.contents = contents]
    /\ conversation_history' = IF shares_history THEN contents ELSE conversation_history

\* back at the top of the while loop: response_data, the position of the for
\* loop and final_text are assigned again before they are read, and the HTTP
\* response is gone
NextRequest ==
    /\ pc' = "send"
    /\ part_index' = 0
    /\ response_data' = None
    /\ response' = None
    /\ final_text' = <<>>

\* the statement reached after the body of the for loop; text is final_text
NextPart(text) ==
    IF part_index + 1 > Len(content_parts)
    THEN NextRequest
    ELSE /\ pc' = "parts"
         /\ part_index' = part_index + 1
         /\ final_text' = text
         /\ UNCHANGED <<response_data, response>>

Return(value) ==
    /\ result' = value
    /\ pc' = "done"

\* Agent.set_variable
set_variable ==
    /\ pc = "idle"
    /\ \E name \in {"current_user"}, value \in {[str |-> "alice"]} :
          variables' = with(variables, name, value)
    /\ UNCHANGED <<pc, tools, intermediate_results, json_format, conversation_history,
                   shares_history, payload, apply_json_format_later, count,
                   response_data, part_index, final_text, result, requests,
                   response, executions, parts_received, parts_budget, config,
                   api_client, urls, calls, left_behind, config_before>>

\* prompt() keeping the intermediate results of the call before
reset_intermediate_results_never(previous) == previous

\* the intermediate results a prompt() call starts with
reset_intermediate_results(previous) == EmptyDict

\* the tool declarations, added without the toolConfig
add_tools_only(base, registered) ==
    IF get_tools_json(registered) # {}
    THEN base @@ [tools |-> <<[functionDeclarations |-> get_tools_json(registered)]>>]
    ELSE base

\* the tool declarations of the payload, when tools are registered
add_tools(base, registered) ==
    IF get_tools_json(registered) # {}
    THEN base @@ [tools |-> <<[functionDeclarations |-> get_tools_json(registered)]>>,
                  toolConfig |-> [functionCallingConfig |-> [mode |-> "AUTO"]]]
    ELSE base

\* the JSON mime type asked for whenever json_format is set
add_generation_config_always(base, jf, registered) ==
    IF jf
    THEN base @@ [generationConfig |-> [response_mime_type |-> "application/json"]]
    ELSE base

\* the JSON mime type of the payload, asked for at once when no tools are
\* registered
add_generation_config(base, jf, registered) ==
    IF jf /\ get_tools_json(registered) = {}
    THEN base @@ [generationConfig |-> [response_mime_type |-> "application/json"]]
    ELSE base

\* the payload holding the user prompt without what came before it
initial_payload_without_history(current_contents, jf, registered) ==
    add_generation_config(
        add_tools([system_instruction |->
                      [parts |-> <<[text |-> <<>>], [text |-> <<"system prompt">>]>>],
                   contents |-> <<current_contents[Len(current_contents)]>>],
                  registered),
        jf, registered)

\* the payload built before the main conversation loop
initial_payload(current_contents, jf, registered) ==
    add_generation_config(
        add_tools([system_instruction |->
                      [parts |-> <<[text |-> <<>>], [text |-> <<"system prompt">>]>>],
                   contents |-> current_contents],
                  registered),
        jf, registered)

\* Agent.prompt up to the main conversation loop, for arguments drawn from
\* formats, histories and configs and a model that sends at most budget parts
prompt_call(formats, histories, configs, budget) ==
    /\ pc = "idle"
    /\ \E jf \in formats, history \in histories, cfg \in configs :
          LET current_contents == Append(history, Turn("user", [text |-> user_prompt]))
          IN /\ json_format' = jf
             /\ config' = cfg
             /\ left_behind' = intermediate_results
             /\ intermediate_results' = reset_intermediate_results(intermediate_results)
             /\ shares_history' = (history # <<>>)
             /\ conversation_history' = IF history # <<>> THEN current_contents ELSE history
             /\ apply_json_format_later' = (jf /\ get_tools_json(tools) # {})
             /\ payload' = initial_payload(current_contents, jf, tools)
    /\ count' = 0
    /\ pc' = "send"
    /\ parts_received' = 0
    /\ parts_budget' = budget
    /\ calls' = calls + 1
    /\ UNCHANGED <<tools, variables, response_data, part_index, final_text,
                   result, requests, response, executions, api_client, urls,
                   config_before>>

\* a prompt() call without a config
prompt == prompt_call(BOOLEAN, {<<>>, PriorTranscript}, {EmptyDict}, MaxParts)

\* a prompt() call with or without a config, without a prior transcript
prompt_override == prompt_call(BOOLEAN, {<<>>}, Configs, MaxCallParts)

\* the caller has the result of prompt() and goes on: the locals of the call
\* are gone, the Agent and the caller's list stay
next_call ==
    /\ pc = "done"
    /\ calls < MaxCalls
    /\ pc' = "idle"
    /\ payload' = None
    /\ apply_json_format_later' = FALSE
    /\ json_format' = FALSE
    /\ config' = EmptyDict
    /\ shares_history' = FALSE
    /\ count' = 0
    /\ response_data' = None
    /\ part_index' = 0
    /\ final_text' = <<>>
    /\ result' = Pending
    /\ requests' = <<>>
    /\ response' = None
    /\ executions' = <<>>
    /\ urls' = <<>>
    /\ parts_received' = 0
    /\ parts_budget' = 0
    /\ config_before' = config
    /\ UNCHANGED <<tools, variables, intermediate_results, conversation_history,
                   api_client, calls, left_behind>>

\* the error result of a response without candidates
blocked_result(data) ==
    LET feedback == IF "promptFeedback" \in DOMAIN data THEN data.promptFeedback ELSE None
        block_reason == IF feedback # None THEN feedback.blockReason ELSE "Unknown"
    IN [error |-> [message |-> <<"Request blocked by API. Reason: ", block_reason>>,
                   details |-> feedback]]

\* the error result of the handler of KeyError and IndexError
parse_error_result(key, data) ==
    [error |-> [message |-> <<"Error parsing API response: ", key>>, details |-> data]]

\* the call ends while the loop holds the response http with the body data
ReturnOn(http, data, value) ==
    /\ Return(value)
    /\ response' = http
    /\ response_data' = data
    /\ UNCHANGED <<part_index, final_text>>

\* what the loop does with the outcome r of call_gemini_api, up to the for loop
handle_response(http, r) ==
    IF "raised" \in DOMAIN r
    THEN IF r.raised = "HTTPError"
         THEN ReturnOn(http, response_data, [error |-> [message |-> r.message]])
         ELSE ReturnOn(http, response_data, [raised |-> r.raised])
    ELSE LET data == r.returned IN
         IF "candidates" \notin DOMAIN data \/ data.candidates = <<>>
         THEN ReturnOn(http, data, blocked_result(data))
         ELSE IF "content" \notin DOMAIN data.candidates[1]
         THEN ReturnOn(http, data, parse_error_result("content", data))
         ELSE IF "parts" \notin DOMAIN data.candidates[1].content
         THEN ReturnOn(http, data, parse_error_result("parts", data))
         ELSE IF data.candidates[1].content.parts = <<>>
         THEN /\ NextRequest
              /\ UNCHANGED result
         ELSE /\ pc' = "parts"
              /\ part_index' = 1
              /\ response' = http
              /\ response_data' = data
              /\ UNCHANGED <<result, final_text>>

\* one pass of the while loop up to the for loop: post the payload, validate
call_api ==
    /\ pc = "send"
    /\ count < MaxRequests
    /\ count' = count + 1
    /\ requests' = Append(requests, payload)
    /\ urls' = Append(urls, request_url(api_client, config))
    /\ \E received \in HttpResponses(parts_budget - parts_received) :
          /\ parts_received' = parts_received + Len(PartsOf(received))
          /\ handle_response(received, call_gemini_api(received))
    /\ UNCHANGED <<tools, variables, intermediate_results, json_format,
                   conversation_history, shares_history, payload,
                   apply_json_format_later, executions, parts_budget, config,
                   api_client, calls, left_behind, config_before>>

\* a pass of the while loop after the first MaxRequests: count, which only
\* names the debug files, is kept up to its parity from MaxRequests on, and
\* the logs hold the first MaxRequests requests
call_api_beyond ==
    /\ pc = "send"
    /\ count >= MaxRequests
    /\ count' = IF count = MaxRequests THEN MaxRequests + 1 ELSE MaxRequests
    /\ \E received \in HttpResponses(parts_budget - parts_received) :
          /\ parts_received' = parts_received + Len(PartsOf(received))
          /\ handle_response(received, call_gemini_api(received))
    /\ UNCHANGED <<tools, variables, intermediate_results, json_format,
                   conversation_history, shares_history, payload,
                   apply_json_format_later, executions, parts_budget, config,
                   api_client, calls, left_behind, config_before,
                   requests, urls>>

\* one iteration of the for loop on a part holding a functionCall
function_call_part ==
    /\ pc = "parts"
    /\ part_index <= Len(content_parts)
    /\ IsFunctionCall(content_parts[part_index])
    /\ LET part == content_parts[part_index]
           fc == part.functionCall
           appended == Append(payload.contents, Turn("model", part))
       IN IF "name" \notin DOMAIN fc
          THEN \* KeyError, caught by the handler around the for loop
               /\ SetContents(appended)
               /\ Return(parse_error_result("name", response_data))
               /\ UNCHANGED <<part_index, response_data, response, final_text,
                              intermediate_results, executions>>
          ELSE LET tool_name == fc.name
                   args == IF "args" \in DOMAIN fc THEN fc.args ELSE EmptyDict
               IN IF ~has_tool(tools, tool_name)
                  THEN /\ SetContents(Append(appended,
                              Turn("user", unknown_tool_part(tool_name))))
                       /\ NextPart(final_text)
                       /\ UNCHANGED <<result, intermediate_results, executions>>
                  ELSE \E outcome \in ToolOutcomes :
                          LET r == execute_tool(tool_name, args, variables,
                                                intermediate_results, outcome)
                          IN /\ executions' = Append(executions,
                                    [request |-> count, part |-> part_index,
                                     tool |-> tool_name, args |-> args, outcome |-> r])
                             /\ IF "raised" \in DOMAIN r
                                THEN /\ SetContents(Append(appended,
                                            Turn("user", tool_error_part(tool_name, r.raised))))
                                     /\ UNCHANGED intermediate_results
                                ELSE /\ SetContents(appended \o
                                            tool_result_turns(tool_name, r.returned,
                                                              r.variable_name))
                                     /\ intermediate_results' =
                                           with(intermediate_results, r.variable_name, r.returned)
                             /\ NextPart(final_text)
                             /\ UNCHANGED result
    /\ UNCHANGED <<tools, variables, json_format, shares_history,
                   apply_json_format_later, count, requests, parts_received,
                   parts_budget, config, api_client, urls, calls,
                   left_behind, config_before>>

\* one iteration of the for loop on a part holding a text
text_part ==
    /\ pc = "parts"
    /\ part_index <= Len(content_parts)
    /\ ~IsFunctionCall(content_parts[part_index])
    /\ IsText(content_parts[part_index])
    /\ LET part == content_parts[part_index] IN
       IF has_more_function_calls(content_parts, part)
       THEN /\ NextPart(part.text)
            /\ UNCHANGED result
       ELSE /\ final_text' = part.text
            /\ IF apply_json_format_later
               THEN \* _format_as_json is entered: of the locals of prompt it
                    \* gets payload, final_text and count
                    /\ pc' = "format"
                    /\ part_index' = 0
                    /\ response_data' = None
                    /\ response' = None
                    /\ UNCHANGED result
               ELSE /\ Return(final_result(part.text, json_format))
                    /\ UNCHANGED <<part_index, response_data, response>>
    /\ UNCHANGED <<tools, variables, intermediate_results, json_format,
                   conversation_history, shares_history, payload,
                   apply_json_format_later, count, requests, executions,
                   parts_received, parts_budget, config, api_client, urls, calls,
                   left_behind, config_before>>

\* the text of the first part of the first candidate, or KeyError / IndexError
structured_text(data) ==
    IF /\ "candidates" \in DOMAIN data
       /\ data.candidates # <<>>
       /\ "content" \in DOMAIN data.candidates[1]
       /\ "parts" \in DOMAIN data.candidates[1].content
       /\ data.candidates[1].content.parts # <<>>
       /\ "text" \in DOMAIN data.candidates[1].content.parts[1]
    THEN [ok |-> TRUE, text |-> data.candidates[1].content.parts[1].text]
    ELSE [ok |-> FALSE]

\* formatting_payload without the generationConfig
formatting_payload_plain ==
    [system_instruction |->
        [parts |-> <<[text |-> <<>>], [text |-> <<"system prompt">>]>>],
     contents |-> Append(payload.contents, Turn("user", [text |->
        <<"Based on our conversation above, please format your response as JSON. Here is the current response: ">>
        \o final_text]))]

formatting_payload ==
    [system_instruction |->
        [parts |-> <<[text |-> <<>>], [text |-> <<"system prompt">>]>>],
     contents |-> Append(payload.contents, Turn("user", [text |->
        <<"Based on our conversation above, please format your response as JSON. Here is the current response: ">>
        \o final_text])),
     generationConfig |-> [response_mime_type |-> "application/json"]]

\* what _format_as_json returns for the HTTP response to its request
format_result(http, text) ==
    LET r == call_gemini_api(http) IN
    IF "raised" \in DOMAIN r THEN [text |-> text]
    ELSE LET st == structured_text(r.returned) IN
         IF ~st.ok THEN [text |-> text]
         ELSE LET parsed == json_loads(st.text) IN
              IF parsed.ok THEN [json |-> parsed.value] ELSE [text |-> text]

\* Agent._format_as_json, called for the final text when JSON was deferred
format_as_json ==
    /\ pc = "format"
    /\ requests' = Append(requests, formatting_payload)
    /\ urls' = Append(urls, request_url(api_client, config))
    /\ \E received \in HttpResponses(parts_budget - parts_received) :
          /\ parts_received' = parts_received + Len(PartsOf(received))
          /\ response' = received
          /\ Return(format_result(received, final_text))
    /\ UNCHANGED <<tools, variables, intermediate_results, json_format,
                   conversation_history, shares_history, payload,
                   apply_json_format_later, count, response_data, part_index,
                   final_text, executions, parts_budget, config, api_client, calls,
                   left_behind, config_before>>

Next ==
    \/ set_variable
    \/ prompt
    \/ call_api
    \/ function_call_part
    \/ text_part
    \/ format_as_json

Spec == Init /\ [][Next]_vars

\* calls that follow one another on the same Agent, with config overrides
NextCalls ==
    \/ set_variable
    \/ prompt_override
    \/ call_api
    \/ function_call_part
    \/ text_part
    \/ format_as_json
    \/ next_call

SpecCalls == Init /\ [][NextCalls]_vars

\* a loop without a ceiling on its turns
NextLive ==
    \/ set_variable
    \/ prompt
    \/ call_api
    \/ call_api_beyond
    \/ function_call_part
    \/ text_part
    \/ format_as_json

\* prompt() runs in one thread, synchronously: a statement that can run does
\* run, and the transport answers every request; the caller may never call
SpecLive ==
    /\ Init
    /\ [][NextLive]_vars
    /\ WF_vars(call_api)
    /\ WF_vars(call_api_beyond)
    /\ WF_vars(function_call_part)
    /\ WF_vars(text_part)
    /\ WF_vars(format_as_json)


\* ------------------------------------------------------------ properties
\* the for loop stands at a part of the response
AtPart == pc = "parts" /\ part_index \in DOMAIN content_parts

CurrentPart == content_parts[part_index]

IsNamedCall(part) == IsFunctionCall(part) /\ "name" \in DOMAIN part.functionCall

IsErrorResponseTurn(turn, tool_name) ==
    /\ turn.role = "user"
    /\ Len(turn.parts) = 1
    /\ "functionResponse" \in DOMAIN turn.parts[1]
    /\ turn.parts[1].functionResponse.name = tool_name
    /\ "error" \in DOMAIN turn.parts[1].functionResponse.response
    /\ Len(turn.parts[1].functionResponse.response.error) > 0

\* C1: a function-call part naming an unregistered tool appends the model turn
\* holding the part and then a user turn with a functionResponse for that name
\* carrying a non-empty error; no tool is executed, the call does not end and
\* the for loop goes on with the next part (or the while loop with a request).
C1_UnknownToolRecoverable ==
    [][ (AtPart /\ IsNamedCall(CurrentPart)
            /\ CurrentPart.functionCall.name \notin tools)
        => LET n == Len(payload.contents)
               after == payload'.contents
           IN /\ Len(after) = n + 2
              /\ SubSeq(after, 1, n) = payload.contents
              /\ after[n + 1] = [role |-> "model", parts |-> <<CurrentPart>>]
              /\ IsErrorResponseTurn(after[n + 2], CurrentPart.functionCall.name)
              /\ executions' = executions
              /\ result' = Pending
              /\ pc' = IF part_index < Len(content_parts) THEN "parts" ELSE "send"
              /\ (pc' = "parts" => part_index' = part_index + 1)
      ]_vars

\* an unknown tool was answered with an error and the next part is up
C1_Witness ==
    /\ AtPart
    /\ part_index > 1
    /\ IsNamedCall(content_parts[part_index - 1])
    /\ content_parts[part_index - 1].functionCall.name \notin tools
    /\ IsErrorResponseTurn(payload.contents[Len(payload.contents)],
                           content_parts[part_index - 1].functionCall.name)


Last(seq) == seq[Len(seq)]

Raised(e) == "raised" \in DOMAIN e.outcome

\* the step appends a call of execute_tool that raised
ToolRaisedStep ==
    /\ Len(executions') = Len(executions) + 1
    /\ Raised(Last(executions'))

\* after a raising tool the error is recorded and the call is still running
C2_ErrorRecorded ==
    ToolRaisedStep =>
        LET e == Last(executions')
            turn == Last(payload'.contents)
        IN /\ result' = Pending
           /\ pc' \in {"parts", "send"}
           /\ Len(payload'.contents) = Len(payload.contents) + 2
           /\ IsErrorResponseTurn(turn, e.tool)
           /\ \E i \in DOMAIN turn.parts[1].functionResponse.response.error :
                 turn.parts[1].functionResponse.response.error[i] = e.tool

\* the call returned on the part at part_index of the response held by the loop
EndedAtPart ==
    /\ pc = "done"
    /\ Len(requests) = count
    /\ response_data # None
    /\ PartsOf(response) # <<>>
    /\ part_index \in DOMAIN content_parts

EndedAtText ==
    /\ EndedAtPart
    /\ ~IsFunctionCall(CurrentPart)
    /\ IsText(CurrentPart)

\* C2 as claimed: a registered tool that raises does not end the call, its
\* error is appended as a functionResponse naming the tool, and another request
\* is sent before the call returns.
C2_Original ==
    /\ [][C2_ErrorRecorded]_vars
    /\ [](pc = "done" =>
            \A i \in DOMAIN executions :
               Raised(executions[i]) => Len(requests) > executions[i].request)

\* C2 (amended): a registered tool that raises does not end the call and its
\* error is appended as a functionResponse naming the tool; another request is
\* sent before the call returns unless a later part of the same response ends
\* the call: a text part taken as the final answer while no JSON formatting
\* call is due, or a function call without a name.
C2_ToolFailureRecoverable ==
    /\ [][C2_ErrorRecorded]_vars
    /\ [](pc = "done" =>
            \A i \in DOMAIN executions :
               Raised(executions[i]) =>
                  \/ Len(requests) > executions[i].request
                  \/ /\ EndedAtPart
                     /\ executions[i].request = count
                     /\ part_index > executions[i].part
                     /\ \/ /\ EndedAtText
                           /\ ~apply_json_format_later
                           /\ ("text" \in DOMAIN result \/ "json" \in DOMAIN result)
                        \/ /\ IsFunctionCall(CurrentPart)
                           /\ ~IsNamedCall(CurrentPart)
                           /\ "error" \in DOMAIN result)

\* a tool raised and the loop has sent the next request
C2_Witness ==
    \E i \in DOMAIN executions :
       /\ Raised(executions[i])
       /\ Len(requests) > executions[i].request
       /\ IsErrorResponseTurn(Last(payload.contents), executions[i].tool)

\* C3: a text part is ignored when a later part of the same response is a
\* function call, and is the final answer (the loop is left with this text)
\* when no later part is one; decided by the position of the part.
C3_TextByPosition ==
    [][ (AtPart /\ ~IsFunctionCall(CurrentPart) /\ IsText(CurrentPart))
        => IF \E j \in (part_index + 1)..Len(content_parts) :
                 IsFunctionCall(content_parts[j])
           THEN /\ result' = Pending
                /\ pc' = "parts"
                /\ part_index' = part_index + 1
           ELSE /\ pc' \in {"done", "format"}
                /\ final_text' = CurrentPart.text
                /\ (pc' = "done" =>
                      \/ result' = [text |-> CurrentPart.text]
                      \/ /\ json_loads(CurrentPart.text).ok
                         /\ result' = [json |-> json_loads(CurrentPart.text).value])
      ]_vars

\* the turn that asks for the JSON formatting of text
IsFormattingTurn(turn, text) ==
    /\ turn.role = "user"
    /\ Len(turn.parts) = 1
    /\ IsText(turn.parts[1])
    /\ Len(turn.parts[1].text) > Len(text)
    /\ SubSeq(turn.parts[1].text, Len(turn.parts[1].text) - Len(text) + 1,
              Len(turn.parts[1].text)) = text

\* C4: with json_format and a registered tool, a call that reached a final
\* text has sent exactly one request after those of the loop: the accumulated
\* contents plus one user turn asking to format the final text, with
\* generationConfig.response_mime_type = application/json; the call returns on
\* its response.
C4_OneFormattingRequest ==
    /\ (pc = "format" => Len(requests) = count /\ result = Pending)
    /\ ( ( /\ pc = "done"
           /\ json_format
           /\ tools # {}
           /\ ("text" \in DOMAIN result \/ "json" \in DOMAIN result) )
         => LET n == Len(requests)
                m == Len(payload.contents)
            IN /\ n = count + 1
               /\ Len(requests[n].contents) = m + 1
               /\ SubSeq(requests[n].contents, 1, m) = payload.contents
               /\ IsFormattingTurn(requests[n].contents[m + 1], final_text)
               /\ "generationConfig" \in DOMAIN requests[n]
               /\ requests[n].generationConfig.response_mime_type = "application/json"
               /\ \A i \in 1..count : "generationConfig" \notin DOMAIN requests[i] )

\* the formatting call returned a parsed value
C4_Witness ==
    /\ pc = "done"
    /\ json_format
    /\ tools # {}
    /\ "json" \in DOMAIN result
    /\ Len(requests) = count + 1

\* the call returned from _format_as_json
FormattingDone == pc = "done" /\ apply_json_format_later /\ Len(requests) = count + 1

\* C5: the formatting call returns the raw final text only when the text of
\* its response fails to parse as JSON; in every other outcome the result is
\* the parsed value or an error result.
C5_RawTextOnlyOnParseFailure ==
    FormattingDone =>
       IF /\ "json" \in DOMAIN response
          /\ response.ok
          /\ structured_text(response.json).ok
       THEN LET parsed == json_loads(structured_text(response.json).text) IN
            IF parsed.ok THEN result = [json |-> parsed.value]
                         ELSE result = [text |-> final_text]
       ELSE "json" \in DOMAIN result \/ "error" \in DOMAIN result

IsErrorResult(value) == "error" \in DOMAIN value /\ "message" \in DOMAIN value.error

\* C6: a non-success response to any request of the call ends the call with an
\* error result {error: {message}}: nothing is raised and nothing is sent or
\* executed afterwards.
C6_TransportErrorIsFatal ==
    ("ok" \in DOMAIN response /\ ~response.ok) => (pc = "done" /\ IsErrorResult(result))

\* the body of the response has no candidates
IsBlocked(http) ==
    /\ "json" \in DOMAIN http
    /\ http.ok
    /\ ("candidates" \notin DOMAIN http.json \/ http.json.candidates = <<>>)

\* C7: a response without candidates ends the call with an error result whose
\* message carries promptFeedback.blockReason ("Unknown" without promptFeedback)
\* and whose details is the feedback.
C7_BlockedIsFatal ==
    IsBlocked(response) =>
       LET feedback == IF "promptFeedback" \in DOMAIN response.json
                       THEN response.json.promptFeedback ELSE None
           reason == IF "promptFeedback" \in DOMAIN response.json
                     THEN response.json.promptFeedback.blockReason ELSE "Unknown"
       IN /\ pc = "done"
          /\ IsErrorResult(result)
          /\ \E i \in DOMAIN result.error.message : result.error.message[i] = reason
          /\ "details" \in DOMAIN result.error
          /\ result.error.details = feedback

\* the body has candidates but lacks content, parts or the name of a call
IsMalformed(http) ==
    /\ "json" \in DOMAIN http
    /\ http.ok
    /\ "candidates" \in DOMAIN http.json
    /\ http.json.candidates # <<>>
    /\ \/ "content" \notin DOMAIN http.json.candidates[1]
       \/ "parts" \notin DOMAIN http.json.candidates[1].content
       \/ \E i \in DOMAIN PartsOf(http) :
             IsFunctionCall(PartsOf(http)[i]) /\ ~IsNamedCall(PartsOf(http)[i])

\* C8: a response with candidates that lacks content, parts or the name of a
\* function call ends the call with an error result whose details is the raw
\* response; nothing is raised and no further request is sent.
C8_MalformedIsFatal ==
    /\ []((pc = "done" /\ IsMalformed(response)) =>
             /\ IsErrorResult(result)
             /\ "details" \in DOMAIN result.error
             /\ result.error.details = response.json)
    /\ [][IsMalformed(response) => pc' \in {"parts", "done"}]_vars

\* C9: with json_format and no registered tool the final text is returned
\* parsed when it is valid JSON and unchanged when it is not; nothing is raised
\* and no request besides those of the loop is sent.
C9_DirectJsonParse ==
    (EndedAtText /\ json_format /\ tools = {}) =>
       /\ final_text = CurrentPart.text
       /\ Len(requests) = count
       /\ IF json_loads(final_text).ok
          THEN result = [json |-> json_loads(final_text).value]
          ELSE result = [text |-> final_text]
       /\ (final_text = <<"[", "1", "]">> => result = [json |-> [list |-> <<[int |-> 1]>>]])
       /\ (final_text = <<"[", "1">> => result = [text |-> <<"[", "1">>])

\* a valid JSON text was returned parsed
C9_Witness ==
    /\ EndedAtText
    /\ json_format
    /\ tools = {}
    /\ result = [json |-> [list |-> <<[int |-> 1]>>]]

Invoked(e) == "received" \in DOMAIN e.outcome

\* C10: the arguments a tool receives hold the stored value of the variable in
\* place of every marker {"variable": name} and every other value as sent; the
\* marker never reaches the tool.
C10_MarkersResolved ==
    \A i \in DOMAIN executions :
       LET e == executions[i] IN
       Invoked(e) =>
          /\ DOMAIN e.outcome.received = DOMAIN e.args
          /\ \A k \in DOMAIN e.args :
                IF IsMarker(e.args[k])
                THEN /\ e.args[k].variable \in DOMAIN variables
                     /\ e.outcome.received[k] = variables[e.args[k].variable]
                     /\ ~IsMarker(e.outcome.received[k])
                ELSE e.outcome.received[k] = e.args[k]

\* a tool was called with a marker among its arguments
C10_Witness ==
    \E i \in DOMAIN executions :
       /\ Invoked(executions[i])
       /\ \E k \in DOMAIN executions[i].args : IsMarker(executions[i].args[k])


\* ------------------------------------------------------ calls that follow one another
\* the names execute_tool stored during the current call
StoredNames ==
    {executions[i].outcome.variable_name :
        i \in {j \in DOMAIN executions : "variable_name" \in DOMAIN executions[j].outcome}}

\* C11: a prompt() call starts, before any request or tool execution, with
\* empty intermediate results, whatever the call before left behind and
\* however it ended, and the names visible during a call are those stored by
\* the tool executions of that call
C11_IntermediateResultsPerCall ==
    /\ (pc = "send" /\ count = 0) => intermediate_results = EmptyDict
    /\ pc # "idle" => DOMAIN intermediate_results = StoredNames

\* a second call has started on an Agent whose first call left a name behind
C11_Witness ==
    /\ calls = 2
    /\ pc = "send"
    /\ count = 0
    /\ left_behind # EmptyDict
    /\ intermediate_results = EmptyDict

\* ------------------------------------------------------ the requests of one call
ToolFields == {"tools", "toolConfig"}

\* C12: with no tool registered no request of a prompt() call holds tools
\* or toolConfig; with a tool registered every request of the tool-calling
\* loop holds both
C12_ToolFieldsFollowRegistry ==
    /\ tools = {} =>
          \A i \in DOMAIN requests : ToolFields \cap DOMAIN requests[i] = {}
    /\ tools # {} =>
          \A i \in DOMAIN requests :
             i <= count =>
                /\ ToolFields \subseteq DOMAIN requests[i]
                /\ requests[i].tools = <<[functionDeclarations |-> get_tools_json(tools)]>>
                /\ requests[i].toolConfig = [functionCallingConfig |-> [mode |-> "AUTO"]]

\* the loop has sent a second request while a tool is registered
C12_Witness ==
    /\ tools # {}
    /\ count = 2
    /\ Len(requests) = 2
    /\ \A i \in 1..2 : ToolFields \subseteq DOMAIN requests[i]

HasJsonMimeType(request) ==
    /\ "generationConfig" \in DOMAIN request
    /\ "response_mime_type" \in DOMAIN request.generationConfig

\* C19: no request, the JSON formatting request included, holds both tool
\* declarations and the JSON response mime type, whatever json_format is and
\* whether or not tools are registered
C19_ToolsExcludeJsonMimeType ==
    \A i \in DOMAIN requests :
       ~(ToolFields \cap DOMAIN requests[i] # {} /\ HasJsonMimeType(requests[i]))

\* json_format with a registered tool: the loop's request holds the tools,
\* the formatting request the mime type
C19_Witness ==
    /\ json_format
    /\ tools # {}
    /\ pc = "done"
    /\ Len(requests) = count + 1
    /\ ToolFields \subseteq DOMAIN requests[1]
    /\ HasJsonMimeType(requests[Len(requests)])

IsPrefix(s, t) == Len(s) <= Len(t) /\ SubSeq(t, 1, Len(s)) = s

\* C20: the contents of the first request of a call are the prior transcript
\* followed by the user prompt turn, and the contents of every later request
\* of the call, the JSON formatting request included, extend those of the
\* request before it
C20_TranscriptAppendOnly ==
    /\ requests # <<>> =>
          requests[1].contents =
             Append(IF shares_history THEN PriorTranscript ELSE <<>>,
                    Turn("user", [text |-> user_prompt]))
    /\ \A i \in DOMAIN requests :
          i > 1 => IsPrefix(requests[i - 1].contents, requests[i].contents)

\* a call given a prior transcript has sent two requests of the loop, the
\* second with more turns, and the formatting request
C20_Witness ==
    /\ shares_history
    /\ Len(requests) = 3
    /\ count = 2
    /\ Len(requests[1].contents) < Len(requests[2].contents)
    /\ Len(requests[2].contents) < Len(requests[3].contents)

\* ------------------------------------------------------ config overrides
\* the URL the claim gives a call with config cfg: the overriding key, the
\* configured value for a key cfg does not give
TargetUrl(cfg) ==
    Url(IF "region" \in DOMAIN cfg THEN cfg.region ELSE "us-central1",
        IF "model_name" \in DOMAIN cfg THEN cfg.model_name ELSE "gemini-1.5-flash")

\* C13: every request of a call, the formatting request included, is posted
\* to the model and region of that call's config, with the configured value
\* for a key the config lacks; model_name, region and base_url of the
\* APIClient never change, so a call without a config posts to the
\* configured model and region whatever the calls before were given
C13_ConfigOverridesOneCall ==
    /\ api_client = ConfiguredClient
    /\ \A i \in DOMAIN urls : urls[i] = TargetUrl(config)

\* a call without a config has posted to the configured URL after a call
\* with an override
C13_Witness ==
    /\ calls = 2
    /\ config_before # EmptyDict
    /\ config = EmptyDict
    /\ urls # <<>>
    /\ urls[1] = Url("us-central1", "gemini-1.5-flash")

\* ------------------------------------------------------ termination
\* the response being processed holds no function-call part
NoFunctionCallPart ==
    pc = "parts" => \A i \in DOMAIN content_parts : ~IsFunctionCall(content_parts[i])

\* C14: when from some response on no response holds a function-call part,
\* and the transport keeps answering, a prompt() call that has started
\* returns a final value or an error result
C14_ReturnsWithoutFunctionCalls ==
    <>[]NoFunctionCallPart => ((pc = "send") ~> (pc = "done"))

\* ------------------------------------------------------ the turns of one call
\* the turns contents held before the call appended any
InitialLen == (IF shares_history THEN Len(PriorTranscript) ELSE 0) + 1

\* a user turn holding the function response for the function call of part
IsResponseTurnFor(turn, part) ==
    /\ turn.role = "user"
    /\ Len(turn.parts) = 1
    /\ "functionResponse" \in DOMAIN turn.parts[1]
    /\ IsNamedCall(part) =>
          turn.parts[1].functionResponse.name = part.functionCall.name

\* the model turn at position i of contents is followed by user turns up to
\* and including the function response for it
Answered(contents, i) ==
    \E j \in (i + 1)..Len(contents) :
       /\ IsResponseTurnFor(contents[j], contents[i].parts[1])
       /\ \A k \in (i + 1)..j : contents[k].role = "user"

\* a request is about to be sent, or the call has returned a value or an
\* error result
AtRequestOrReturn ==
    \/ pc \in {"send", "format"}
    \/ pc = "done" /\ "raised" \notin DOMAIN result

\* C15: where a request is sent and where the call returns a value or an
\* error result, every model turn the call appended to contents is followed
\* by at least one user turn, one of them holding the function response for
\* it, and never directly by another model turn
C15_ModelTurnsAnswered ==
    AtRequestOrReturn =>
       \A i \in DOMAIN payload.contents :
          (i > InitialLen /\ payload.contents[i].role = "model") =>
             Answered(payload.contents, i)

\* the loop's handling of the function-call part at hand leaves what contents
\* held and appends the model turn holding the part, then user turns, the
\* last of them the function response for the part; the next part of the
\* response is the next the loop takes
RecordedAtOnce ==
    LET n == Len(payload.contents)
        after == payload'.contents
    IN /\ Len(after) > n + 1
       /\ SubSeq(after, 1, n) = payload.contents
       /\ after[n + 1] = [role |-> "model", parts |-> <<CurrentPart>>]
       /\ \A k \in (n + 2)..Len(after) : after[k].role = "user"
       /\ IsResponseTurnFor(after[Len(after)], CurrentPart)
       /\ (pc' = "parts" => part_index' = part_index + 1)

\* no step of a call takes a turn out of contents or changes one
TurnsKept ==
    pc \in {"send", "parts", "format"} => IsPrefix(payload.contents, payload'.contents)

IsTextPart(part) == IsText(part) /\ ~IsFunctionCall(part)

\* the positions of the text parts with no function call after them
TrailingTexts(parts) ==
    {i \in DOMAIN parts :
        /\ IsTextPart(parts[i])
        /\ \A j \in (i + 1)..Len(parts) : ~IsFunctionCall(parts[j])}

\* the part at position i equals a part that stands ahead of a function call
Shadowed(parts, i) ==
    \E k \in 1..(i - 1) :
       /\ parts[k] = parts[i]
       /\ \E j \in (k + 1)..Len(parts) : IsFunctionCall(parts[j])

\* the loop is at a text part of a response that holds several text parts
\* with no function call after them
AtTextAmongSeveral ==
    /\ AtPart
    /\ IsTextPart(CurrentPart)
    /\ Cardinality(TrailingTexts(content_parts)) >= 2

C18_ContentsOwnedByCall ==
    /\ conversation_history \in {<<>>, PriorTranscript}
    /\ requests # <<>> =>
          requests[1].contents \in
             {Append(history, Turn("user", [text |-> user_prompt])) :
                 history \in {<<>>, PriorTranscript}}
====
